---- MODULE Spec2Model ----
(***************************************************************************)
(* NutriAI backend (backend/server.py): the nutrition-target calculator    *)
(* calculate_nutrition_targets, the meal-analysis pipeline                 *)
(* analyze_meal -> analyze_meal_with_gemini, and the requests that write   *)
(* db.users (register, update_profile) and db.meals (save_meal,            *)
(* delete_meal).                                                           *)
(*                                                                         *)
(* Numbers.  weight_kg and height_cm are held in tenths (700 = 70.0 kg),   *)
(* age in years, confidence_score in hundredths (80 = 0.80); every other   *)
(* JSON number is held as it is.  The arithmetic of the calculator is done *)
(* in exact scaled integers and truncated toward zero as int() does.       *)
(***************************************************************************)
EXTENDS Integers, Sequences, FiniteSets, TLC

VARIABLES
    user,       \* the dict handed to calculate_nutrition_targets
    calc,       \* what the call has produced so far
    apiKey,     \* DEEPSEEK_API_KEY is set
    pc,         \* the state of the analysis request
    reply,      \* ds_response, once requests.post has returned
    result,     \* transformed_result
    caught,     \* the exception analyze_meal has caught, with its str()
    response,   \* what analyze_meal returns
    calls,      \* the number of requests.post calls issued
    stored,     \* the document of the user in db.users
    req,        \* the update_profile requests: where each is, what it holds
    userDocs,   \* per email, the number of documents of db.users with it
    reg,        \* the register requests: where each is
    meals,      \* the documents of db.meals that are told apart
    older,      \* per user, the older documents of db.meals, as an interval
    saves,      \* the save_meal and delete_meal requests
    context,    \* the allergies and medical values of the user's document
    prompt      \* allergies_str and medical_str, once the prompt is built

calcVars == <<user, calc>>
pipeVars == <<apiKey, pc, reply, result, caught, response, calls>>
dbVars == <<stored, req>>
regVars == <<userDocs, reg>>
mealVars == <<meals, older, saves>>
promptVars == <<context, prompt>>
vars ==
    <<user, calc, apiKey, pc, reply, result, caught, response, calls, stored,
      req, userDocs, reg, meals, older, saves, context, prompt>>

(***************************************************************************)
(* Profile values.  k is the Python kind of the value held under a key     *)
(* ("absent": the key is not in the dict; "null": None), n its number,     *)
(* w its text in lower case and c the case the text is written in.         *)
(***************************************************************************)
PAbsent == [k |-> "absent", n |-> 0, w |-> "", c |-> "lower"]
PNull == [k |-> "null", n |-> 0, w |-> "", c |-> "lower"]
PNum(x) == [k |-> "num", n |-> x, w |-> "", c |-> "lower"]
PStr(word, case) == [k |-> "str", n |-> 0, w |-> word, c |-> case]

\* dict.get(key): None when the key is absent
PGet(d, key) == IF d[key].k = "absent" THEN PNull ELSE d[key]

\* dict.get(key, default)
PGetDefault(d, key, default) == IF d[key].k = "absent" THEN default ELSE d[key]

\* Python truthiness of a profile value
Truthy(x) ==
    CASE x.k = "num" -> x.n # 0
      [] x.k = "str" -> x.w # ""
      [] OTHER -> FALSE

\* str.lower(): the text keeps its letters and loses its case
Lower(x) == [x EXCEPT !.c = "lower"]

\* s == 'literal' for a lower-case literal
StrEq(x, literal) == x.k = "str" /\ x.w = literal /\ x.c = "lower"

\* Trunc rounding to the nearest integer instead of truncating
Trunc_Nearest(num, den) ==
    IF num >= 0 THEN (2 * num + den) \div (2 * den)
    ELSE -((2 * (-num) + den) \div (2 * den))

\* int(): truncation toward zero of num / den, den > 0
Trunc(num, den) == IF num >= 0 THEN num \div den ELSE -((-num) \div den)

DefaultCalories == 2000
DefaultProtein == 50

\* activity_multipliers.get(activity, 1.55), in fortieths: 1.2 = 48/40,
\* 1.375 = 55/40, 1.55 = 62/40, 1.725 = 69/40, 1.9 = 76/40
ActivityMultiplier(activity) ==
    CASE StrEq(activity, "sedentary") -> 48
      [] StrEq(activity, "light") -> 55
      [] StrEq(activity, "moderate") -> 62
      [] StrEq(activity, "active") -> 69
      [] StrEq(activity, "very_active") -> 76
      [] OTHER -> 62

\* BMR (Mifflin-St Jeor) in thousandths of a kcal; weight, height in tenths
Bmr(weight, height, age, gender) ==
    IF StrEq(gender, "male")
    THEN 1000 * weight + 625 * height - 5000 * age + 5000
    ELSE 1000 * weight + 625 * height - 5000 * age - 161000

\* the goal adjustment of the calorie target, in kcal
GoalAdjustment(goal) ==
    CASE StrEq(goal, "fat_loss") -> -500
      [] StrEq(goal, "muscular") -> 300
      [] OTHER -> 0

\* grams of protein per kg, in tenths
ProteinPerKg(goal) ==
    CASE StrEq(goal, "muscular") -> 20
      [] StrEq(goal, "fat_loss") -> 18
      [] OTHER -> 16

Returned(calories, protein) ==
    [outcome |-> "return", exc |-> "none",
     daily_calorie_target |-> calories, daily_protein_target |-> protein]

Raised(type) ==
    [outcome |-> "raise", exc |-> type,
     daily_calorie_target |-> 0, daily_protein_target |-> 0]

NotCalled ==
    [outcome |-> "none", exc |-> "none",
     daily_calorie_target |-> 0, daily_protein_target |-> 0]

\* HasBiometrics with the gender test forgotten
HasBiometrics_NoGender(u) ==
    /\ Truthy(PGet(u, "weight_kg"))
    /\ Truthy(PGet(u, "height_cm"))
    /\ Truthy(PGet(u, "age"))

\* the precondition of line 186: all four values are truthy
HasBiometrics(u) ==
    /\ Truthy(PGet(u, "weight_kg"))
    /\ Truthy(PGet(u, "height_cm"))
    /\ Truthy(PGet(u, "age"))
    /\ Truthy(PGet(u, "gender"))

\* .lower() on a value that must be a string: None has no attribute lower
CanLower(x) == x.k = "str"

calculate_nutrition_targets(u) ==
    IF ~HasBiometrics(u)
    THEN Returned(DefaultCalories, DefaultProtein)
    ELSE
      LET weight == u["weight_kg"].n
          height == u["height_cm"].n
          age == u["age"].n
          rawGender == u["gender"]
          rawActivity == PGetDefault(u, "activity_level", PStr("moderate", "lower"))
          rawGoal == PGetDefault(u, "goal", PStr("health", "lower"))
      IN  IF ~CanLower(rawGender) \/ ~CanLower(rawActivity) \/ ~CanLower(rawGoal)
          THEN Raised("AttributeError")
          ELSE
            LET gender == Lower(rawGender)
                activity == Lower(rawActivity)
                goal == Lower(rawGoal)
                bmr == Bmr(weight, height, age, gender)
                \* tdee and calories in 1/40000 of a kcal
                tdee == bmr * ActivityMultiplier(activity)
                calories == tdee + GoalAdjustment(goal) * 40000
                \* protein in hundredths of a gram
                protein == weight * ProteinPerKg(goal)
            IN  Returned(Trunc(calories, 40000), Trunc(protein, 100))

(***************************************************************************)
(* JSON values as json.loads returns them.  k is the Python kind ("absent" *)
(* when the key is not in the dict), v the number of a "num", 1 or 0 for a *)
(* "bool" and the length of a "list".                                      *)
(***************************************************************************)
Absent == [k |-> "absent", v |-> 0]
Null == [k |-> "null", v |-> 0]
Num(x) == [k |-> "num", v |-> x]
NaN == [k |-> "nan", v |-> 0]
Bool(b) == [k |-> "bool", v |-> IF b THEN 1 ELSE 0]
Str == [k |-> "str", v |-> 0]
List(n) == [k |-> "list", v |-> n]
Object == [k |-> "object", v |-> 0]

\* dict.get(key, default)
Get(d, key, default) == IF d[key].k = "absent" THEN default ELSE d[key]

\* isinstance(x, (int, float)): bool is an int, nan is a float
IsNumber(x) == x.k \in {"num", "bool", "nan"}

\* the number a numeric value stands for, True being 1, in units of 1/scale
NumberOf(x, scale) == IF x.k = "bool" THEN x.v * scale ELSE x.v

\* x < bound, x >= bound, x <= bound for a numeric x: every comparison with
\* nan is False
LessThan(x, bound, scale) == x.k # "nan" /\ NumberOf(x, scale) < bound
AtLeast(x, bound, scale) == x.k # "nan" /\ NumberOf(x, scale) >= bound
AtMost(x, bound, scale) == x.k # "nan" /\ NumberOf(x, scale) <= bound

(***************************************************************************)
(* Exceptions: the class, the message and the keywords its text holds once *)
(* lower-cased.                                                            *)
(***************************************************************************)
Keywords == {"quota", "rate", "timeout", "network", "connection"}

Msg(text, arg) == [text |-> text, arg |-> arg]
Exc(type, msg, kw) == [type |-> type, msg |-> msg, kw |-> kw]
NoExc == Exc("none", Msg("", ""), {})

\* the classes the except clauses name and the classes they catch
IsInstance(e, class) ==
    CASE class = "JSONDecodeError" -> e.type = "JSONDecodeError"
      [] class = "ValueError" -> e.type \in {"ValueError", "JSONDecodeError"}
      [] class = "HTTPException" -> e.type = "HTTPException"
      [] class = "Exception" ->
            e.type \in {"ValueError", "JSONDecodeError", "HTTPException",
                        "TypeError", "AttributeError", "IndexError",
                        "RequestException"}
      [] OTHER -> FALSE

HTTPException(detail, kw) == Exc("HTTPException", detail, kw)

\* the except clauses that close analyze_meal_with_gemini
GeminiExcept(e) ==
    CASE IsInstance(e, "JSONDecodeError") ->
            HTTPException(Msg("Failed to parse DeepSeek response. Please try again with better lighting.", ""), {})
      [] IsInstance(e, "HTTPException") -> e
      [] IsInstance(e, "Exception") ->
            HTTPException(Msg("Failed to analyze meal: ", e.msg.text), e.kw)
      [] OTHER -> e

\* str(e): the detail of an HTTPException is in it when the installed
\* Starlette defines HTTPException.__str__ and is not otherwise
StrOf(e, detailShown) ==
    IF e.type = "HTTPException" /\ ~detailShown
    THEN [e EXCEPT !.msg = Msg("", ""), !.kw = {}]
    ELSE e

NoResult ==
    [calories_kcal |-> Absent, protein_g |-> Absent, carbs_g |-> Absent,
     fat_g |-> Absent, fiber_g |-> Absent, sugar_g |-> Absent,
     sodium_mg |-> Absent, confidence_score |-> Absent, items |-> Absent,
     recommendations |-> Absent, explanation |-> Absent,
     needs_confirmation |-> Absent, needs_portion_confirmation |-> Absent,
     very_low_confidence |-> Absent]

\* the message of a response: a fixed prefix, then the text of the exception
Message(prefix, msg) == [prefix |-> prefix, text |-> msg.text, arg |-> msg.arg]

NoResponse ==
    [status |-> "none", code |-> "", message |-> Message("", Msg("", "")),
     data |-> NoResult]

Success(data) ==
    [status |-> "success", code |-> "", message |-> Message("", Msg("", "")),
     data |-> data]

Error(code, message) ==
    [status |-> "error", code |-> code, message |-> message, data |-> NoResult]

\* the exception leaves analyze_meal
Escaped(e) ==
    [status |-> "raised", code |-> e.type, message |-> Message("", e.msg),
     data |-> NoResult]

\* ClassifyError looking for network and connection before timeout
ClassifyError_NetworkFirst(kw) ==
    IF "quota" \in kw \/ "rate" \in kw THEN "RATE_LIMIT"
    ELSE IF "network" \in kw \/ "connection" \in kw THEN "NETWORK"
    ELSE IF "timeout" \in kw THEN "TIMEOUT"
    ELSE "ANALYSIS_ERROR"

\* the code the text of an exception is given
ClassifyError(kw) ==
    IF "quota" \in kw \/ "rate" \in kw THEN "RATE_LIMIT"
    ELSE IF "timeout" \in kw THEN "TIMEOUT"
    ELSE IF "network" \in kw \/ "connection" \in kw THEN "NETWORK"
    ELSE "ANALYSIS_ERROR"

ErrorMessage(code, e) ==
    CASE code = "RATE_LIMIT" ->
            Message("Service temporarily busy - please wait 60 seconds and try again.", Msg("", ""))
      [] code = "TIMEOUT" ->
            Message("Analysis took too long - try again.", Msg("", ""))
      [] code = "NETWORK" -> Message("Network issue - please retry.", Msg("", ""))
      [] OTHER -> Message("Analysis failed: ", e.msg)

\* HandleException with the except Exception clause left out
HandleException_OnlyValueError(e) ==
    CASE IsInstance(e, "ValueError") ->
            Error("SCHEMA_VALIDATION_ERROR", Message("Validation failed: ", e.msg))
      [] OTHER -> Escaped(e)

\* the except clauses of analyze_meal; e comes with its str()
HandleException(e) ==
    CASE IsInstance(e, "ValueError") ->
            Error("SCHEMA_VALIDATION_ERROR", Message("Validation failed: ", e.msg))
      [] IsInstance(e, "Exception") ->
            Error(ClassifyError(e.kw), ErrorMessage(ClassifyError(e.kw), e))
      [] OTHER -> Escaped(e)

(***************************************************************************)
(* The reply of the service.  status is the HTTP status; body says what    *)
(* ds_response.json() finds ("not_json": no JSON at all, "no_choices": no  *)
(* "choices" key, "empty_choices": an empty list, "ok": a message);        *)
(* form and content are the message content ("str": content[1] is the      *)
(* text, "parts": content is the list of the parts' texts, "null": None).  *)
(* A text is a sequence of tokens: "ws" white space, "FENCE" a code-fence marker, "json" *)
(* and "python" language tags, "prose" any other text and "BODY" the text  *)
(* of one JSON value, which json.loads reads as top and the keys below;     *)
(* others holds the top-level members the normalizer does not read.        *)
(***************************************************************************)
JsonKeys ==
    <<"content", "top", "calories_kcal", "macros", "protein_g", "carbs_g",
      "fat_g", "fiber_g", "sugar_g", "sodium_mg", "confidence_score",
      "food_items", "recommendations", "explainability">>

\* the reply of the end-to-end example: a well-formed service reply
NominalReply ==
    [status |-> 200, body |-> "ok",
     content |-> [form |-> "str", parts |-> << <<"BODY">> >>],
     top |-> "object",
     calories_kcal |-> Num(450), macros |-> Object,
     protein_g |-> Num(20), carbs_g |-> Num(60), fat_g |-> Num(10),
     fiber_g |-> Absent, sugar_g |-> Absent, sodium_mg |-> Absent,
     confidence_score |-> Num(42), food_items |-> List(1),
     recommendations |-> List(1), explainability |-> List(1),
     others |-> NoResult]

NoReply == [NominalReply EXCEPT !.status = 0, !.body = "none"]

\* what a key of the reply may hold instead of what NominalReply holds
Alternatives(key) ==
    CASE key = "content" ->
            {[form |-> "str", parts |-> << <<"ws", "BODY", "ws">> >>],
             [form |-> "str", parts |-> << <<"FENCE", "json", "ws", "BODY", "ws", "FENCE">> >>],
             [form |-> "str", parts |-> << <<"FENCE", "ws", "BODY", "ws", "FENCE">> >>],
             [form |-> "str", parts |-> << <<"FENCE", "python", "ws", "BODY", "ws", "FENCE">> >>],
             [form |-> "parts", parts |-> << <<"BODY">> >>],
             [form |-> "parts", parts |-> << <<"FENCE", "json", "ws">>, <<"BODY", "ws", "FENCE">> >>]}
      [] key = "top" -> {"array", "scalar"}
      [] key = "calories_kcal" -> {Absent, Null, Num(-1), Num(0), NaN, Str}
      [] key = "macros" -> {Absent, Null, List(0)}
      [] key = "protein_g" -> {Absent, Null, Num(-5)}
      [] key = "carbs_g" -> {Absent, Null}
      [] key = "fat_g" -> {Absent, Null}
      [] key = "fiber_g" -> {Null, Num(5)}
      [] key = "sugar_g" -> {Null, Num(-2)}
      [] key = "sodium_mg" -> {Null, Str}
      [] key = "confidence_score" ->
            {Absent, Null, Str, NaN, Bool(TRUE), Num(-10), Num(0), Num(30),
             Num(49), Num(50), Num(65), Num(79), Num(80), Num(90), Num(100),
             Num(150)}
      [] key = "food_items" -> {Absent, Null, List(0), List(2), Str}
      [] key = "recommendations" -> {Absent, Null, List(0)}
      [] key = "explainability" -> {Absent, Null, List(0)}

\* the number of keys of one reply that differ from NominalReply
MaxAnomalies == 3

\* the replies that differ from NominalReply in exactly the keys of changed,
\* among the first i keys of JsonKeys
RECURSIVE RepliesChanging(_, _)
RepliesChanging(i, changed) ==
    IF i = 0 THEN {NominalReply}
    ELSE IF JsonKeys[i] \in changed
    THEN {[r EXCEPT ![JsonKeys[i]] = a] :
            r \in RepliesChanging(i - 1, changed),
            a \in Alternatives(JsonKeys[i])}
    ELSE RepliesChanging(i - 1, changed)

\* the sets of at most MaxAnomalies keys
AnomalySets ==
    {c \in SUBSET {JsonKeys[i] : i \in 1..Len(JsonKeys)} :
        Cardinality(c) <= MaxAnomalies}

\* replies with another status, with a body that holds no message, with a
\* message whose text is no JSON value
StatusReplies == {[NominalReply EXCEPT !.status = st] : st \in {201, 429, 500}}

BodyReplies ==
    {[NominalReply EXCEPT !.body = b] :
        b \in {"not_json", "no_choices", "empty_choices"}}

TextReplies ==
    {[NominalReply EXCEPT !.content = c] :
        c \in {[form |-> "null", parts |-> <<>>],
               [form |-> "str", parts |-> << <<>> >>],
               [form |-> "str", parts |-> << <<"prose">> >>],
               [form |-> "str", parts |-> << <<"prose", "BODY">> >>],
               [form |-> "str", parts |-> << <<"BODY", "prose">> >>],
               [form |-> "str", parts |-> << <<"FENCE", "json", "ws", "BODY">> >>],
               [form |-> "parts", parts |-> <<>>]}}

TransportReplies == StatusReplies \cup BodyReplies \cup TextReplies

\* replies whose JSON object holds nothing but a non-empty food_items list
SparseReplies ==
    {[NominalReply EXCEPT
        !.calories_kcal = Absent, !.macros = Absent, !.protein_g = Absent,
        !.carbs_g = Absent, !.fat_g = Absent, !.confidence_score = Absent,
        !.recommendations = Absent, !.explainability = Absent,
        !.food_items = items] : items \in {List(1), List(2)}}

\* the texts a transport error of requests.post may carry
TransportTexts == SUBSET Keywords

(***************************************************************************)
(* analyze_meal_with_gemini: from the reply to transformed_result.         *)
(***************************************************************************)
\* "".join(...) of the parts' texts
RECURSIVE Join(_)
Join(parts) == IF parts = <<>> THEN <<>> ELSE Head(parts) \o Join(Tail(parts))

\* content_text: the parts joined, the string itself, "" for None
ContentText(content) ==
    CASE content.form = "parts" -> Join(content.parts)
      [] content.form = "str" -> content.parts[1]
      [] OTHER -> <<>>

\* str.strip()
RECURSIVE StripLeft(_)
StripLeft(t) == IF t # <<>> /\ Head(t) = "ws" THEN StripLeft(Tail(t)) ELSE t

RECURSIVE StripRight(_)
StripRight(t) ==
    IF t # <<>> /\ t[Len(t)] = "ws"
    THEN StripRight(SubSeq(t, 1, Len(t) - 1))
    ELSE t

Strip(t) == StripLeft(StripRight(t))

StartsWith(t, prefix) ==
    Len(t) >= Len(prefix) /\ SubSeq(t, 1, Len(prefix)) = prefix

EndsWith(t, suffix) ==
    Len(t) >= Len(suffix)
        /\ SubSeq(t, Len(t) - Len(suffix) + 1, Len(t)) = suffix

\* the opening fence, with the tag json or bare, then the closing fence
RemoveFences(t) ==
    LET opened ==
            IF StartsWith(t, <<"FENCE", "json">>) THEN SubSeq(t, 3, Len(t))
            ELSE IF StartsWith(t, <<"FENCE">>) THEN SubSeq(t, 2, Len(t))
            ELSE t
    IN  IF EndsWith(opened, <<"FENCE">>)
        THEN SubSeq(opened, 1, Len(opened) - 1)
        ELSE opened

\* response_text as json.loads is given it
ResponseText(r) ==
    IF r.body = "no_choices" THEN <<>>
    ELSE Strip(RemoveFences(Strip(ContentText(r.content))))

\* json.loads reads exactly one JSON value
Parses(t) == t = <<"BODY">>

\* MacroOf without the default 0: .get(key) gives None for a missing key
MacroOf_NoDefault(r, key) ==
    IF r.macros.k = "absent" THEN Null ELSE Get(r, key, Null)

\* result.get("macros", {}).get(key, 0)
MacroOf(r, key) == IF r.macros.k = "absent" THEN Num(0) ELSE Get(r, key, Num(0))

\* Transform reading the macros at the top level of the reply, where the
\* service does not put them
Transform_TopLevelMacros(r) ==
    [NoResult EXCEPT
        !.calories_kcal = Get(r, "calories_kcal", Num(0)),
        !.protein_g = Num(0),
        !.carbs_g = Num(0),
        !.fat_g = Num(0),
        !.fiber_g = Num(0),
        !.sugar_g = Num(0),
        !.sodium_mg = Num(0),
        !.confidence_score = Get(r, "confidence_score", Num(50)),
        !.items = Get(r, "food_items", List(0)),
        !.recommendations = Get(r, "recommendations", List(0)),
        !.explanation = Get(r, "explainability", List(0))]

\* Transform with no default for confidence_score
Transform_ConfidenceRequired(r) ==
    [NoResult EXCEPT
        !.calories_kcal = Get(r, "calories_kcal", Num(0)),
        !.protein_g = MacroOf(r, "protein_g"),
        !.carbs_g = MacroOf(r, "carbs_g"),
        !.fat_g = MacroOf(r, "fat_g"),
        !.fiber_g = MacroOf(r, "fiber_g"),
        !.sugar_g = MacroOf(r, "sugar_g"),
        !.sodium_mg = MacroOf(r, "sodium_mg"),
        !.confidence_score = Get(r, "confidence_score", Null),
        !.items = Get(r, "food_items", List(0)),
        !.recommendations = Get(r, "recommendations", List(0)),
        !.explanation = Get(r, "explainability", List(0))]

\* transformed_result before the flags are added
Transform(r) ==
    [NoResult EXCEPT
        !.calories_kcal = Get(r, "calories_kcal", Num(0)),
        !.protein_g = MacroOf(r, "protein_g"),
        !.carbs_g = MacroOf(r, "carbs_g"),
        !.fat_g = MacroOf(r, "fat_g"),
        !.fiber_g = MacroOf(r, "fiber_g"),
        !.sugar_g = MacroOf(r, "sugar_g"),
        !.sodium_mg = MacroOf(r, "sodium_mg"),
        !.confidence_score = Get(r, "confidence_score", Num(50)),
        !.items = Get(r, "food_items", List(0)),
        !.recommendations = Get(r, "recommendations", List(0)),
        !.explanation = Get(r, "explainability", List(0))]

\* the exception lines 372 to 409 raise on reply r, NoExc when they raise none
NormalizeError(r) ==
    CASE r.body = "not_json" ->
            Exc("JSONDecodeError", Msg("Expecting value", ""), {})
      [] r.body = "empty_choices" ->
            Exc("IndexError", Msg("list index out of range", ""), {})
      [] ~Parses(ResponseText(r)) ->
            Exc("JSONDecodeError", Msg("Expecting value", ""), {})
      [] r.top # "object" ->
            Exc("AttributeError", Msg("object has no attribute 'get'", ""), {})
      [] r.macros.k \notin {"absent", "object"} ->
            Exc("AttributeError", Msg("object has no attribute 'get'", ""), {})
      [] OTHER -> NoExc

ConfirmThreshold == 80
LowThreshold == 50

\* ConfidenceFlags with the upper boundary taken inclusive
ConfidenceFlags_Inclusive(confidence) ==
    [needs_confirmation |-> AtMost(confidence, ConfirmThreshold, 100),
     needs_portion_confirmation |->
        AtMost(confidence, ConfirmThreshold, 100)
            /\ AtLeast(confidence, LowThreshold, 100),
     very_low_confidence |-> LessThan(confidence, LowThreshold, 100)]

\* ConfidenceFlags with the upper test of the portion flag forgotten
ConfidenceFlags_PortionUnbounded(confidence) ==
    [needs_confirmation |-> LessThan(confidence, ConfirmThreshold, 100),
     needs_portion_confirmation |-> AtLeast(confidence, LowThreshold, 100),
     very_low_confidence |-> LessThan(confidence, LowThreshold, 100)]

\* the three flags of a numeric confidence, in hundredths
ConfidenceFlags(confidence) ==
    [needs_confirmation |-> LessThan(confidence, ConfirmThreshold, 100),
     needs_portion_confirmation |->
        LessThan(confidence, ConfirmThreshold, 100)
            /\ AtLeast(confidence, LowThreshold, 100),
     very_low_confidence |-> LessThan(confidence, LowThreshold, 100)]

\* confidence < 0.80 raises TypeError unless confidence is a number
FlagError(res) ==
    IF IsNumber(res.confidence_score) THEN NoExc
    ELSE Exc("TypeError", Msg("'<' not supported between instances", ""), {})

AddFlags(res) ==
    LET flags == ConfidenceFlags(res.confidence_score)
    IN  [res EXCEPT
            !.needs_confirmation = Bool(flags.needs_confirmation),
            !.needs_portion_confirmation = Bool(flags.needs_portion_confirmation),
            !.very_low_confidence = Bool(flags.very_low_confidence)]

(***************************************************************************)
(* analyze_meal: the validation of the result.                             *)
(***************************************************************************)
required_fields ==
    <<"calories_kcal", "protein_g", "carbs_g", "fat_g", "confidence_score",
      "items">>

\* field not in result or result[field] is None
IsMissing(res, field) == res[field].k \in {"absent", "null"}

\* the index in required_fields of the first missing field, 0 when none is
FirstMissing(res) ==
    LET missing == {i \in 1..Len(required_fields) :
                        IsMissing(res, required_fields[i])}
    IN  IF missing = {} THEN 0
        ELSE CHOOSE i \in missing : \A j \in missing : i <= j

ValueError(text, arg) == Exc("ValueError", Msg(text, arg), {})

InvalidCalories(res) ==
    ~IsNumber(res.calories_kcal) \/ LessThan(res.calories_kcal, 0, 1)

InvalidConfidence(res) ==
    \/ ~IsNumber(res.confidence_score)
    \/ ~(AtLeast(res.confidence_score, 0, 100)
            /\ AtMost(res.confidence_score, 100, 100))

InvalidItems(res) == res.items.k # "list" \/ res.items.v = 0

\* ValidationError with the confidence looked at before the calories
ValidationError_ConfidenceFirst(res) ==
    IF FirstMissing(res) # 0
    THEN ValueError("Missing required field: ", required_fields[FirstMissing(res)])
    ELSE IF InvalidConfidence(res) THEN ValueError("Invalid confidence score", "")
    ELSE IF InvalidCalories(res) THEN ValueError("Invalid calories value", "")
    ELSE IF InvalidItems(res) THEN ValueError("No food items detected", "")
    ELSE NoExc

\* the ValueError the validation raises on res, NoExc when it raises none
ValidationError(res) ==
    IF FirstMissing(res) # 0
    THEN ValueError("Missing required field: ", required_fields[FirstMissing(res)])
    ELSE IF InvalidCalories(res) THEN ValueError("Invalid calories value", "")
    ELSE IF InvalidConfidence(res) THEN ValueError("Invalid confidence score", "")
    ELSE IF InvalidItems(res) THEN ValueError("No food items detected", "")
    ELSE NoExc

(***************************************************************************)
(* The profiles the calculator is applied to.                              *)
(***************************************************************************)
Weights == {PAbsent, PNull, PNum(0), PNum(500), PNum(700), PNum(725)}
Heights == {PAbsent, PNull, PNum(0), PNum(1600), PNum(1750)}
Ages == {PAbsent, PNull, PNum(0), PNum(30), PNum(60)}
Genders ==
    {PAbsent, PNull, PStr("", "lower"), PStr("male", "lower"),
     PStr("male", "title"), PStr("male", "upper"), PStr("female", "lower"),
     PStr("other", "lower")}
Activities ==
    {PAbsent, PNull, PStr("sedentary", "lower"), PStr("light", "lower"),
     PStr("moderate", "lower"), PStr("active", "lower"),
     PStr("very_active", "lower"), PStr("active", "title"),
     PStr("couch", "lower")}
Goals ==
    {PAbsent, PNull, PStr("fat_loss", "lower"), PStr("muscular", "lower"),
     PStr("lean", "lower"), PStr("health", "lower"),
     PStr("fat_loss", "upper"), PStr("bulk", "lower")}

Profiles ==
    [weight_kg : Weights, height_cm : Heights, age : Ages, gender : Genders,
     activity_level : Activities, goal : Goals]

\* the record register stores: no biometrics yet, goal and activity_level
\* at their defaults
RegisteredUser ==
    [weight_kg |-> PNull, height_cm |-> PNull, age |-> PNull, gender |-> PNull,
     activity_level |-> PStr("moderate", "lower"),
     goal |-> PStr("health", "lower")]

(***************************************************************************)
(* The allergies and medical values of the user's document and their       *)
(* rendering in the prompt.  k is the Python kind of the value; items are  *)
(* the elements of a "list", the characters of a "str" and the keys of a   *)
(* "dict", n the number of a "num".  The elements of a list are held as    *)
(* the text str() gives for them.  A rendered text is the sequence of its  *)
(* pieces.                                                                 *)
(***************************************************************************)
CAbsent == [k |-> "absent", items |-> <<>>, n |-> 0]
CNull == [k |-> "null", items |-> <<>>, n |-> 0]
CList(items) == [k |-> "list", items |-> items, n |-> 0]
CStr(chars) == [k |-> "str", items |-> chars, n |-> 0]
CNum(x) == [k |-> "num", items |-> <<>>, n |-> x]
CDict(keys) == [k |-> "dict", items |-> keys, n |-> 0]

\* d.get(key, default)
CGet(d, key, default) == IF d[key].k = "absent" THEN default ELSE d[key]

\* bool(x)
CTruthy(x) ==
    CASE x.k \in {"list", "str", "dict"} -> x.items # <<>>
      [] x.k = "num" -> x.n # 0
      [] OTHER -> FALSE

\* sep.join(items)
RECURSIVE JoinWith(_, _)
JoinWith(sep, items) ==
    IF items = <<>> THEN <<>>
    ELSE IF Len(items) = 1 THEN items
    ELSE <<Head(items), sep>> \o JoinWith(sep, Tail(items))

\* every list is joined, the empty one too
ListStr_NoEmptyTest(x) ==
    IF x.k = "list" THEN JoinWith(", ", x.items) ELSE <<"None">>

\* lines 257 to 260 and 263 to 266: allergies_str, medical_str
ListStr(x) ==
    IF CTruthy(x) /\ x.k = "list" THEN JoinWith(", ", x.items) ELSE <<"None">>

\* lines 508 to 516 of analyze_meal: the two list entries of user_context
UserContext(current_user) ==
    [allergies |-> CGet(current_user, "allergies", CList(<<>>)),
     medical |-> CGet(current_user, "medical", CList(<<>>))]

\* lines 256 to 266: the two rendered texts of context_str
BuildContext(user_context) ==
    [allergies_str |-> ListStr(CGet(user_context, "allergies", CList(<<>>))),
     medical_str |-> ListStr(CGet(user_context, "medical", CList(<<>>)))]

NoPrompt == [allergies_str |-> <<>>, medical_str |-> <<>>]

\* register stores UserProfile's defaults: allergies and medical are None
NewContext == [allergies |-> CNull, medical |-> CNull]

\* the values a document can hold under allergies or medical
ListValues ==
    {CAbsent, CNull, CList(<<>>), CList(<<"peanuts">>),
     CList(<<"peanuts", "gluten">>), CList(<<"gluten", "peanuts">>),
     CStr(<<>>), CStr(<<"n", "o">>), CNum(0), CNum(5), CDict(<<>>),
     CDict(<<"peanuts">>)}

Contexts == [allergies : ListValues, medical : ListValues]

(***************************************************************************)
(* db.meals.  The documents that are told apart are records: oid is the    *)
(* _id the insertion gives, id the id of the MealEntry (a uuid4 unless the *)
(* request gives one), timestamp its timestamp.  The other documents of a  *)
(* user are older than every timestamp told apart and carry uuid4 ids of   *)
(* their own; they are numbered from the oldest, and older[u] holds the    *)
(* numbers lo..hi that are still stored.                                   *)
(***************************************************************************)
Users == {"u1", "u2"}

\* the register requests and the save_meal or delete_meal requests that may
\* be in flight together
MaxRegistrations == 3
Registrations == 1..MaxRegistrations

\* the emails register is asked for; the user of the other requests has the
\* first
Emails == {"a@x.org", "b@x.org"}
NoUsers == [e \in Emails |-> 0]
OneUser == [e \in Emails |-> IF e = "a@x.org" THEN 1 ELSE 0]

\* what a register request holds: where it is, the email, the HTTP status
NoRegistration == [pc |-> "idle", email |-> "", status |-> 0]
MaxSaves == 2
SaveRequests == 1..MaxSaves

NoOlder == [lo |-> 1, hi |-> 0]

\* what a save_meal request holds: where it is, the user, and once find has
\* answered the ids of to_delete and the last of the older documents in it
NoSave == [pc |-> "idle", user_id |-> "", to_delete |-> {}, older_to |-> 0]

\* line 589: the number of meals kept for a user
MaxMeals == 30

\* the id of a MealEntry: the uuid4 of the default factory, which no other
\* document has, or the id the request gives in meal_data
FreshId(n) == [given |-> FALSE, n |-> n]
GivenId == [given |-> TRUE, n |-> 0]

\* the place of a document in the order of the timestamps of one user: the
\* older documents by their numbers, above them the documents stamped by
\* utcnow (timestamp > 0), below them the documents whose timestamp the
\* request gave in the past (timestamp < 0)
Key(d) == IF d.timestamp > 0 THEN 100 + d.timestamp ELSE d.timestamp

UserMeals(u) == {d \in meals : d.user_id = u}

DocKeys(u) == {Key(d) : d \in UserMeals(u)} \cup (older[u].lo .. older[u].hi)

\* meals[30:] of the list sorted by timestamp, newest first: the keys of the
\* documents beyond the MaxMeals newest
Beyond(keys) ==
    {k \in keys : Cardinality({j \in keys : j > k}) >= MaxMeals}

\* the greatest of a set of numbers, low when there is none
Greatest(numbers, low) ==
    IF numbers = {} THEN low ELSE CHOOSE n \in numbers : \A m \in numbers : m <= n

\* the timestamp utcnow gives to the next document inserted
Now == Cardinality({q \in SaveRequests : saves[q].pc # "idle"}) + 1

(***************************************************************************)
(* The users collection and the requests that write it: register and      *)
(* update_profile.                                                         *)
(***************************************************************************)
ProfileKeys ==
    {"weight_kg", "height_cm", "age", "gender", "activity_level", "goal"}

\* no document: the user is not registered
NoUser ==
    [registered |-> FALSE,
     weight_kg |-> PAbsent, height_cm |-> PAbsent, age |-> PAbsent,
     gender |-> PAbsent, activity_level |-> PAbsent, goal |-> PAbsent,
     daily_calorie_target |-> 0, daily_protein_target |-> 0]

\* UserProfile(email, name).dict(): the document register inserts
NewUser ==
    [registered |-> TRUE,
     weight_kg |-> PNull, height_cm |-> PNull, age |-> PNull,
     gender |-> PNull,
     activity_level |-> PStr("moderate", "lower"),
     goal |-> PStr("health", "lower"),
     daily_calorie_target |-> DefaultCalories,
     daily_protein_target |-> DefaultProtein]

\* the update_profile requests that may be in flight together
MaxRequests == 2
Requests == 1..MaxRequests

\* update_data: the fields of the request that are not None; PAbsent says
\* the field is not in it
Updates ==
    [weight_kg : {PAbsent, PNum(0), PNum(700), PNum(800)},
     height_cm : {PAbsent, PNum(1750)},
     age : {PAbsent, PNum(30)},
     gender : {PAbsent, PStr("male", "lower")},
     activity_level : {PAbsent, PStr("active", "lower")},
     goal : {PAbsent, PStr("muscular", "lower")}]

NoUpdate ==
    [weight_kg |-> PAbsent, height_cm |-> PAbsent, age |-> PAbsent,
     gender |-> PAbsent, activity_level |-> PAbsent, goal |-> PAbsent]

NoRequest == [pc |-> "idle", current_user |-> NoUser, update_data |-> NoUpdate]

\* {**current_user, **update_data}
Merge(current_user, update_data) ==
    [key \in ProfileKeys |->
        IF update_data[key].k # "absent" THEN update_data[key]
        ELSE current_user[key]]

\* any(k in update_data for k in [...the six fields...])
TouchesTargets(update_data) ==
    \E key \in ProfileKeys : update_data[key].k # "absent"

\* update_one({"id": ...}, {"$set": update_data}) on document doc, targets
\* being what calculate_nutrition_targets returned
SetFields(doc, update_data, targets) ==
    [doc EXCEPT
        !.weight_kg = PGetDefault(update_data, "weight_kg", doc.weight_kg),
        !.height_cm = PGetDefault(update_data, "height_cm", doc.height_cm),
        !.age = PGetDefault(update_data, "age", doc.age),
        !.gender = PGetDefault(update_data, "gender", doc.gender),
        !.activity_level =
            PGetDefault(update_data, "activity_level", doc.activity_level),
        !.goal = PGetDefault(update_data, "goal", doc.goal),
        !.daily_calorie_target =
            IF TouchesTargets(update_data) THEN targets.daily_calorie_target
            ELSE doc.daily_calorie_target,
        !.daily_protein_target =
            IF TouchesTargets(update_data) THEN targets.daily_protein_target
            ELSE doc.daily_protein_target]

InitProfile ==
    /\ user = RegisteredUser
    /\ calc = NotCalled
    /\ apiKey = TRUE
    /\ pc = "IDLE"
    /\ reply = NoReply
    /\ result = NoResult
    /\ caught = NoExc
    /\ response = NoResponse
    /\ calls = 0
    /\ stored = NoUser
    /\ req = [p \in Requests |-> NoRequest]
    /\ userDocs = NoUsers
    /\ reg = [r \in Registrations |-> NoRegistration]
    /\ meals = {}
    /\ older = [u \in Users |-> NoOlder]
    /\ saves = [q \in SaveRequests |-> NoSave]
    /\ context = NewContext
    /\ prompt = NoPrompt

\* register, lines 430 to 453: the email is not taken, the document is
\* inserted
Register ==
    /\ ~stored.registered
    /\ stored' = NewUser
    /\ userDocs' = OneUser
    /\ UNCHANGED <<calcVars, pipeVars, req>>
    /\ UNCHANGED <<reg, mealVars, promptVars>>

\* update_profile, its dependency get_current_user (line 175): the document
\* is read; the request carries update_data
ReadUser(p) ==
    /\ req[p].pc = "idle"
    /\ stored.registered
    /\ \E update_data \in Updates :
        req' = [req EXCEPT ![p] =
                    [pc |-> "read", current_user |-> stored,
                     update_data |-> update_data]]
    /\ UNCHANGED <<calcVars, pipeVars, stored>>
    /\ UNCHANGED <<regVars, mealVars, promptVars>>

\* update_profile, lines 474 to 490: the targets are computed from the
\* document as it was read, then $set writes update_data and the targets
WriteUpdate(p) ==
    /\ req[p].pc = "read"
    /\ LET update_data == req[p].update_data
           merged_user == Merge(req[p].current_user, update_data)
           targets == calculate_nutrition_targets(merged_user)
       IN  IF TouchesTargets(update_data) /\ targets.outcome = "raise"
           THEN /\ req' = [req EXCEPT ![p].pc = "done"]
                /\ UNCHANGED stored
           ELSE /\ stored' = SetFields(stored, update_data, targets)
                /\ req' = [req EXCEPT ![p].pc = "written"]
    /\ UNCHANGED <<calcVars, pipeVars>>
    /\ UNCHANGED <<regVars, mealVars, promptVars>>

\* update_profile, lines 492 to 493: the document is read again and returned
ReturnUser(p) ==
    /\ req[p].pc = "written"
    /\ req' = [req EXCEPT ![p].pc = "done"]
    /\ UNCHANGED <<calcVars, pipeVars, stored>>
    /\ UNCHANGED <<regVars, mealVars, promptVars>>

NextProfile ==
    \/ Register
    \/ \E p \in Requests : ReadUser(p)
    \/ \E p \in Requests : WriteUpdate(p)
    \/ \E p \in Requests : ReturnUser(p)

SpecProfile == InitProfile /\ [][NextProfile]_vars

(***************************************************************************)
(* The calculator applied to one profile.                                  *)
(***************************************************************************)
InitTargets ==
    /\ user \in Profiles
    /\ calc = NotCalled
    /\ apiKey = TRUE
    /\ pc = "IDLE"
    /\ reply = NoReply
    /\ result = NoResult
    /\ caught = NoExc
    /\ response = NoResponse
    /\ calls = 0
    /\ stored = NoUser
    /\ req = [p \in Requests |-> NoRequest]
    /\ userDocs = NoUsers
    /\ reg = [r \in Registrations |-> NoRegistration]
    /\ meals = {}
    /\ older = [u \in Users |-> NoOlder]
    /\ saves = [q \in SaveRequests |-> NoSave]
    /\ context = NewContext
    /\ prompt = NoPrompt

CalculateTargets ==
    /\ calc.outcome = "none"
    /\ calc' = calculate_nutrition_targets(user)
    /\ UNCHANGED <<user, pipeVars>>
    /\ UNCHANGED <<dbVars, regVars, mealVars, promptVars>>

NextTargets == CalculateTargets

SpecTargets == InitTargets /\ [][NextTargets]_vars

(***************************************************************************)
(* One analysis request: analyze_meal calling analyze_meal_with_gemini.    *)
(***************************************************************************)
Init ==
    /\ user = RegisteredUser
    /\ calc = NotCalled
    /\ apiKey \in BOOLEAN
    /\ pc = "BUILDING_PROMPT"
    /\ reply = NoReply
    /\ result = NoResult
    /\ caught = NoExc
    /\ response = NoResponse
    /\ calls = 0
    /\ stored = NoUser
    /\ req = [p \in Requests |-> NoRequest]
    /\ userDocs = NoUsers
    /\ reg = [r \in Registrations |-> NoRegistration]
    /\ meals = {}
    /\ older = [u \in Users |-> NoOlder]
    /\ saves = [q \in SaveRequests |-> NoSave]
    /\ context = NewContext
    /\ prompt = NoPrompt

\* e is raised inside the try of analyze_meal_with_gemini: its except clauses
\* turn it into the exception analyze_meal catches and answers
FailInGemini(e) ==
    \E detailShown \in BOOLEAN :
        LET seen == StrOf(GeminiExcept(e), detailShown)
        IN  /\ caught' = seen
            /\ response' = HandleException(seen)
            /\ pc' = "FAILED"

\* e is raised by analyze_meal itself
FailInHandler(e) ==
    /\ caught' = e
    /\ response' = HandleException(e)
    /\ pc' = "FAILED"

\* lines 238 to 364: the key is checked, the prompt and the payload are built;
\* user_context is the dict analyze_meal has built at lines 508 to 516
BuildPrompt ==
    /\ pc = "BUILDING_PROMPT"
    /\ IF ~apiKey
       THEN /\ FailInGemini(HTTPException(Msg("DeepSeek API key not configured", ""), {}))
            /\ UNCHANGED prompt
       ELSE /\ pc' = "CALLING_SERVICE"
            /\ prompt' = BuildContext(UserContext(context))
            /\ UNCHANGED <<caught, response>>
    /\ UNCHANGED <<user, calc, apiKey, reply, result, calls, context>>
    /\ UNCHANGED <<dbVars, regVars, mealVars>>

\* line 366: requests.post raises a transport error
ServiceRaises ==
    /\ pc = "CALLING_SERVICE"
    /\ calls' = calls + 1
    /\ \E kw \in TransportTexts :
        FailInGemini(Exc("RequestException", Msg("transport error", ""), kw))
    /\ UNCHANGED <<user, calc, apiKey, reply, result>>
    /\ UNCHANGED <<dbVars, regVars, mealVars, promptVars>>

\* ReceiveReply calling the service again on a status other than 200
ReceiveReply_Retry(r) ==
    /\ reply' = r
    /\ IF r.status # 200
       THEN /\ pc' = "CALLING_SERVICE"
            /\ UNCHANGED <<caught, response>>
       ELSE /\ pc' = "NORMALIZING"
            /\ UNCHANGED <<caught, response>>

\* lines 366 to 370: requests.post returns r, the status is looked at
ReceiveReply(r) ==
    /\ reply' = r
    /\ IF r.status # 200
       THEN FailInGemini(HTTPException(Msg("DeepSeek service error while analyzing the meal.", ""), {}))
       ELSE /\ pc' = "NORMALIZING"
            /\ UNCHANGED <<caught, response>>

ServiceReplies ==
    /\ pc = "CALLING_SERVICE"
    /\ calls' = calls + 1
    /\ \/ \E r \in TransportReplies : ReceiveReply(r)
       \/ \E r \in SparseReplies : ReceiveReply(r)
       \/ \E changed \in AnomalySets :
            \E r \in RepliesChanging(Len(JsonKeys), changed) : ReceiveReply(r)
    /\ UNCHANGED <<user, calc, apiKey, result>>
    /\ UNCHANGED <<dbVars, regVars, mealVars, promptVars>>

\* lines 372 to 409: the text is taken out of the reply, parsed, transformed
Normalize ==
    /\ pc = "NORMALIZING"
    /\ IF NormalizeError(reply) # NoExc
       THEN /\ FailInGemini(NormalizeError(reply))
            /\ UNCHANGED result
       ELSE /\ result' = Transform(reply)
            /\ pc' = "FLAGGING"
            /\ UNCHANGED <<caught, response>>
    /\ UNCHANGED <<user, calc, apiKey, reply, calls>>
    /\ UNCHANGED <<dbVars, regVars, mealVars, promptVars>>

\* lines 411 to 417: the confidence flags
Flag ==
    /\ pc = "FLAGGING"
    /\ IF FlagError(result) # NoExc
       THEN /\ FailInGemini(FlagError(result))
            /\ UNCHANGED result
       ELSE /\ result' = AddFlags(result)
            /\ pc' = "VALIDATING"
            /\ UNCHANGED <<caught, response>>
    /\ UNCHANGED <<user, calc, apiKey, reply, calls>>
    /\ UNCHANGED <<dbVars, regVars, mealVars, promptVars>>

\* Validate storing the accepted analysis as a meal of the user
Validate_Saving ==
    /\ pc = "VALIDATING"
    /\ IF ValidationError(result) # NoExc
       THEN /\ FailInHandler(ValidationError(result))
            /\ UNCHANGED meals
       ELSE /\ response' = Success(result)
            /\ pc' = "SUCCESS"
            /\ meals' = meals \cup
                    {[oid |-> Cardinality(meals) + 1, id |-> FreshId(0),
                      user_id |-> "u1", timestamp |-> 2]}
            /\ UNCHANGED caught
    /\ UNCHANGED <<user, calc, apiKey, reply, result, calls>>
    /\ UNCHANGED <<dbVars, regVars, older, saves, promptVars>>

\* Validate sending a rejected result back to be flagged and validated again
Validate_Retry ==
    /\ pc = "VALIDATING"
    /\ IF ValidationError(result) # NoExc
       THEN /\ pc' = "FLAGGING"
            /\ UNCHANGED <<caught, response>>
       ELSE /\ response' = Success(result)
            /\ pc' = "SUCCESS"
            /\ UNCHANGED caught
    /\ UNCHANGED <<user, calc, apiKey, reply, result, calls>>
    /\ UNCHANGED <<dbVars, regVars, mealVars, promptVars>>

\* lines 527 to 554: the validation and the answer
Validate ==
    /\ pc = "VALIDATING"
    /\ IF ValidationError(result) # NoExc
       THEN FailInHandler(ValidationError(result))
       ELSE /\ response' = Success(result)
            /\ pc' = "SUCCESS"
            /\ UNCHANGED caught
    /\ UNCHANGED <<user, calc, apiKey, reply, result, calls>>
    /\ UNCHANGED <<dbVars, regVars, mealVars, promptVars>>

Next ==
    \/ BuildPrompt
    \/ ServiceRaises
    \/ ServiceReplies
    \/ Normalize
    \/ Flag
    \/ Validate

Spec == Init /\ [][Next]_vars

\* requests.post returns a reply that differs from NominalReply in one key at
\* most, or one of the other replies
FewReplies ==
    /\ pc = "CALLING_SERVICE"
    /\ calls' = calls + 1
    /\ \/ \E r \in TransportReplies \cup SparseReplies : ReceiveReply(r)
       \/ \E key \in {JsonKeys[i] : i \in 1..Len(JsonKeys)} :
            \E r \in RepliesChanging(Len(JsonKeys), {key}) : ReceiveReply(r)
       \/ ReceiveReply(NominalReply)
    /\ UNCHANGED <<user, calc, apiKey, result>>
    /\ UNCHANGED <<dbVars, regVars, mealVars, promptVars>>

NextLive ==
    \/ BuildPrompt
    \/ ServiceRaises
    \/ FewReplies
    \/ Normalize
    \/ Flag
    \/ Validate

\* The handler is straight-line code: each step is taken once it can be.
\* requests.post is called with timeout=60, so the call returns or raises.
Fairness ==
    /\ WF_vars(BuildPrompt)
    /\ WF_vars(ServiceRaises \/ FewReplies)
    /\ WF_vars(Normalize)
    /\ WF_vars(Flag)
    /\ WF_vars(Validate)

SpecLive == Init /\ [][NextLive]_vars /\ Fairness

(***************************************************************************)
(* One analysis request of a user whose document and meals are stored.     *)
(***************************************************************************)
\* the document of a user who has completed the profile
CompleteUser ==
    [NewUser EXCEPT
        !.weight_kg = PNum(700), !.height_cm = PNum(1750), !.age = PNum(30),
        !.gender = PStr("male", "lower"),
        !.daily_calorie_target = 2555, !.daily_protein_target = 112]

\* get_current_user has read the document; the six fields of it
ProfileOf(doc) == [key \in ProfileKeys |-> doc[key]]

InitStored ==
    /\ stored \in {NewUser, CompleteUser}
    /\ user = ProfileOf(stored)
    /\ calc = NotCalled
    /\ apiKey \in BOOLEAN
    /\ pc = "BUILDING_PROMPT"
    /\ reply = NoReply
    /\ result = NoResult
    /\ caught = NoExc
    /\ response = NoResponse
    /\ calls = 0
    /\ req = [p \in Requests |-> NoRequest]
    /\ userDocs = OneUser
    /\ reg = [r \in Registrations |-> NoRegistration]
    /\ meals = IF stored = CompleteUser
               THEN {[oid |-> 1, id |-> FreshId(0), user_id |-> "u1", timestamp |-> 1]}
               ELSE {}
    /\ older = [u \in Users |-> NoOlder]
    /\ saves = [q \in SaveRequests |-> NoSave]
    /\ context = NewContext
    /\ prompt = NoPrompt

SpecStored == InitStored /\ [][Next]_vars

(***************************************************************************)
(* One analysis request of a user whose document holds any allergies and   *)
(* medical values; the service answers the nominal reply or the call       *)
(* raises.                                                                 *)
(***************************************************************************)
InitPrompt ==
    /\ user = RegisteredUser
    /\ calc = NotCalled
    /\ apiKey \in BOOLEAN
    /\ pc = "BUILDING_PROMPT"
    /\ reply = NoReply
    /\ result = NoResult
    /\ caught = NoExc
    /\ response = NoResponse
    /\ calls = 0
    /\ stored = NoUser
    /\ req = [p \in Requests |-> NoRequest]
    /\ userDocs = NoUsers
    /\ reg = [r \in Registrations |-> NoRegistration]
    /\ meals = {}
    /\ older = [u \in Users |-> NoOlder]
    /\ saves = [q \in SaveRequests |-> NoSave]
    /\ context \in Contexts
    /\ prompt = NoPrompt

\* requests.post returns the nominal reply
NominalReplies ==
    /\ pc = "CALLING_SERVICE"
    /\ calls' = calls + 1
    /\ ReceiveReply(NominalReply)
    /\ UNCHANGED <<user, calc, apiKey, result>>
    /\ UNCHANGED <<dbVars, regVars, mealVars, promptVars>>

NextPrompt ==
    \/ BuildPrompt
    \/ ServiceRaises
    \/ NominalReplies
    \/ Normalize
    \/ Flag
    \/ Validate

SpecPrompt == InitPrompt /\ [][NextPrompt]_vars

(***************************************************************************)
(* save_meal and delete_meal requests of two users on db.meals.  Each      *)
(* await of a handler is a step, and the steps of the requests interleave. *)
(***************************************************************************)
InitMeals ==
    /\ user = RegisteredUser
    /\ calc = NotCalled
    /\ apiKey = TRUE
    /\ pc = "BUILDING_PROMPT"
    /\ reply = NoReply
    /\ result = NoResult
    /\ caught = NoExc
    /\ response = NoResponse
    /\ calls = 0
    /\ stored = NoUser
    /\ req = [p \in Requests |-> NoRequest]
    /\ userDocs = OneUser
    /\ reg = [r \in Registrations |-> NoRegistration]
    /\ meals = {}
    /\ older \in [Users -> {[lo |-> 1, hi |-> MaxMeals - 1], [lo |-> 1, hi |-> MaxMeals]}]
    /\ saves = [q \in SaveRequests |-> NoSave]
    /\ context = NewContext
    /\ prompt = NoPrompt

\* lines 579 to 585: the MealEntry is built from meal_data, which may give
\* the id and the timestamp, and inserted
InsertMeal(q) ==
    /\ saves[q].pc = "idle"
    /\ \E u \in Users, given \in BOOLEAN, past \in BOOLEAN :
        /\ meals' = meals \cup
                {[oid |-> q,
                  id |-> IF given THEN GivenId ELSE FreshId(q),
                  user_id |-> u,
                  timestamp |-> IF past THEN 0 - Now ELSE Now]}
        /\ saves' = [saves EXCEPT ![q] = [@ EXCEPT !.pc = "inserted", !.user_id = u]]
    /\ UNCHANGED older
    /\ UNCHANGED <<calcVars, pipeVars, dbVars, regVars, promptVars>>

\* lines 588 to 590: the meals of the user are read, newest first; the
\* request returns when there are no more than 30
FindMeals(q) ==
    /\ saves[q].pc = "inserted"
    /\ LET u == saves[q].user_id
           beyond == Beyond(DocKeys(u))
       IN  saves' = [saves EXCEPT ![q] =
                IF beyond = {}
                THEN [@ EXCEPT !.pc = "done"]
                ELSE [@ EXCEPT
                        !.pc = "trimming",
                        !.to_delete = {d.id : d \in {e \in UserMeals(u) : Key(e) \in beyond}},
                        !.older_to = Greatest(beyond \cap (older[u].lo .. older[u].hi), 0)]]
    /\ UNCHANGED <<meals, older>>
    /\ UNCHANGED <<calcVars, pipeVars, dbVars, regVars, promptVars>>

\* line 591: delete_many removes every document whose id is in the list;
\* the filter does not name the user
DeleteMany(q) ==
    /\ saves[q].pc = "trimming"
    /\ LET u == saves[q].user_id
       IN  /\ meals' = {d \in meals : d.id \notin saves[q].to_delete}
           /\ older' = [older EXCEPT ![u] =
                    [@ EXCEPT !.lo = IF saves[q].older_to >= @ THEN saves[q].older_to + 1 ELSE @]]
    /\ saves' = [saves EXCEPT ![q] = [@ EXCEPT !.pc = "done"]]
    /\ UNCHANGED <<calcVars, pipeVars, dbVars, regVars, promptVars>>

\* lines 609 to 615: delete_one removes one document of the user with the
\* id, here one of those told apart or the newest of the older ones
DeleteMeal(q) ==
    /\ saves[q].pc = "idle"
    /\ \E u \in Users :
        /\ \/ \E d \in UserMeals(u) :
                /\ meals' = meals \ {d}
                /\ UNCHANGED older
           \/ /\ older[u].hi >= older[u].lo
              /\ older' = [older EXCEPT ![u] = [@ EXCEPT !.hi = @ - 1]]
              /\ UNCHANGED meals
        /\ saves' = [saves EXCEPT ![q] = [@ EXCEPT !.pc = "done", !.user_id = u]]
    /\ UNCHANGED <<calcVars, pipeVars, dbVars, regVars, promptVars>>

NextMeals ==
    \E q \in SaveRequests :
        \/ InsertMeal(q)
        \/ FindMeals(q)
        \/ DeleteMany(q)
        \/ DeleteMeal(q)

SpecMeals == InitMeals /\ [][NextMeals]_vars

(***************************************************************************)
(* register requests on db.users.  find_one and insert_one are two awaits, *)
(* and the steps of the requests interleave.                               *)
(***************************************************************************)
InitRegister ==
    /\ user = RegisteredUser
    /\ calc = NotCalled
    /\ apiKey = TRUE
    /\ pc = "BUILDING_PROMPT"
    /\ reply = NoReply
    /\ result = NoResult
    /\ caught = NoExc
    /\ response = NoResponse
    /\ calls = 0
    /\ stored = NoUser
    /\ req = [p \in Requests |-> NoRequest]
    /\ userDocs \in [Emails -> {0, 1}]
    /\ reg = [r \in Registrations |-> NoRegistration]
    /\ meals = {}
    /\ older = [u \in Users |-> NoOlder]
    /\ saves = [q \in SaveRequests |-> NoSave]
    /\ context = NewContext
    /\ prompt = NoPrompt

\* lines 433 to 435: find_one by the email; a document found is answered
\* with 400
FindEmail(r) ==
    /\ reg[r].pc = "idle"
    /\ \E e \in Emails :
        reg' = [reg EXCEPT ![r] =
                    IF userDocs[e] > 0
                    THEN [pc |-> "rejected", email |-> e, status |-> 400]
                    ELSE [pc |-> "checked", email |-> e, status |-> 0]]
    /\ UNCHANGED userDocs
    /\ UNCHANGED <<calcVars, pipeVars, dbVars, mealVars, promptVars>>

\* lines 437 to 453: the document is built and inserted, the token returned
InsertUser(r) ==
    /\ reg[r].pc = "checked"
    /\ userDocs' = [userDocs EXCEPT ![reg[r].email] = @ + 1]
    /\ reg' = [reg EXCEPT ![r] = [@ EXCEPT !.pc = "done", !.status = 200]]
    /\ UNCHANGED <<calcVars, pipeVars, dbVars, mealVars, promptVars>>

NextRegister ==
    \E r \in Registrations :
        \/ FindEmail(r)
        \/ InsertUser(r)

SpecRegister == InitRegister /\ [][NextRegister]_vars

(***************************************************************************)
(* The normalizer and the validator run again on their own output.         *)
(***************************************************************************)
\* a MealAnalysis as the parsed object of a reply: calories_kcal,
\* confidence_score and recommendations keep their names; there is no
\* macros, food_items or explainability member; the flat macros, items,
\* explanation and the flags are members the normalizer does not read
AsReply(res) ==
    [NominalReply EXCEPT
        !.calories_kcal = res.calories_kcal,
        !.confidence_score = res.confidence_score,
        !.recommendations = res.recommendations,
        !.macros = Absent,
        !.protein_g = Absent, !.carbs_g = Absent, !.fat_g = Absent,
        !.fiber_g = Absent, !.sugar_g = Absent, !.sodium_mg = Absent,
        !.food_items = Absent,
        !.explainability = Absent,
        !.others = res]

\* the returned MealAnalysis is handed to lines 396 to 417 and 527 to 546
\* again
Rerun ==
    /\ pc = "SUCCESS"
    /\ reply.others = NoResult
    /\ reply' = AsReply(response.data)
    /\ result' = NoResult
    /\ pc' = "NORMALIZING"
    /\ UNCHANGED <<user, calc, apiKey, caught, response, calls>>
    /\ UNCHANGED <<dbVars, regVars, mealVars, promptVars>>

NextRerun == Next \/ Rerun

SpecRerun == Init /\ [][NextRerun]_vars

(***************************************************************************)
(* Properties of the analysis request, checked under Spec.                 *)
(***************************************************************************)
Finished == pc \in {"SUCCESS", "FAILED"}

ErrorCodes ==
    {"MALFORMED_RESPONSE", "SCHEMA_VALIDATION_ERROR", "ANALYSIS_ERROR",
     "RATE_LIMIT", "TIMEOUT", "NETWORK", "EXTERNAL_SERVICE_ERROR"}

Flagged ==
    /\ result.needs_confirmation.k = "bool"
    /\ result.needs_portion_confirmation.k = "bool"
    /\ result.very_low_confidence.k = "bool"

Unflagged ==
    /\ result.needs_confirmation = Absent
    /\ result.needs_portion_confirmation = Absent
    /\ result.very_low_confidence = Absent

FlagsAre(nc, npc, vlc) ==
    /\ result.needs_confirmation = Bool(nc)
    /\ result.needs_portion_confirmation = Bool(npc)
    /\ result.very_low_confidence = Bool(vlc)

\* C2: the three flags are a function of confidence_score alone, c in
\* hundredths: needs_confirmation = (c < 80), needs_portion_confirmation =
\* (50 <= c < 80), very_low_confidence = (c < 50); c = 80 gives
\* (false, false, false) and c = 50 gives (true, true, false).
C2_FlagsFollowConfidence ==
    LET c == result.confidence_score
    IN  /\ Flagged \/ Unflagged
        /\ pc \in {"VALIDATING", "SUCCESS"} => Flagged
        /\ (Flagged /\ c.k = "num") =>
                FlagsAre(c.v < 80, 50 <= c.v /\ c.v < 80, c.v < 50)
        /\ (Flagged /\ c = Num(80)) => FlagsAre(FALSE, FALSE, FALSE)
        /\ (Flagged /\ c = Num(50)) => FlagsAre(TRUE, TRUE, FALSE)
        /\ (Flagged /\ c.k = "bool") => FlagsAre(c.v = 0, FALSE, c.v = 0)
        /\ (Flagged /\ c.k = "nan") => FlagsAre(FALSE, FALSE, FALSE)
        /\ Flagged => c.k \in {"num", "bool", "nan"}

\* a returned result whose confidence is exactly 0.80 carries no flag
C2_Witness ==
    /\ pc = "SUCCESS"
    /\ result.confidence_score = Num(80)
    /\ FlagsAre(FALSE, FALSE, FALSE)

\* C3: in every result that carries the flags, very_low_confidence implies
\* needs_confirmation, needs_portion_confirmation implies needs_confirmation,
\* and very_low_confidence and needs_portion_confirmation are never both true.
C3_FlagsConsistent ==
    Flagged =>
        /\ result.very_low_confidence = Bool(TRUE)
                => result.needs_confirmation = Bool(TRUE)
        /\ result.needs_portion_confirmation = Bool(TRUE)
                => result.needs_confirmation = Bool(TRUE)
        /\ ~(result.very_low_confidence = Bool(TRUE)
                /\ result.needs_portion_confirmation = Bool(TRUE))

\* a returned result of confidence 0.30: very low, to be confirmed, no
\* portion confirmation
C3_Witness ==
    /\ pc = "SUCCESS"
    /\ result.confidence_score = Num(30)
    /\ FlagsAre(TRUE, FALSE, TRUE)

\* a number, not nan, that is at least 0
NonNegativeNumber(x) == x.k \in {"num", "bool"} /\ x.v >= 0

\* C4: a success carries calories_kcal numeric and >= 0, confidence_score
\* numeric and within [0, 1], non-null protein_g, carbs_g and fat_g, and
\* items a non-empty list.
C4_SuccessIsValid ==
    response.status = "success" =>
        LET data == response.data
        IN  /\ NonNegativeNumber(data.calories_kcal)
            /\ NonNegativeNumber(data.confidence_score)
            /\ NumberOf(data.confidence_score, 100) <= 100
            /\ data.protein_g.k \notin {"absent", "null"}
            /\ data.carbs_g.k \notin {"absent", "null"}
            /\ data.fat_g.k \notin {"absent", "null"}
            /\ data.items.k = "list" /\ data.items.v > 0

\* the rules of the validator, as it applies them to a result
C5_Missing(field) == result[field].k \in {"absent", "null"}
C5_NoneMissing == \A i \in 1..Len(required_fields) : ~C5_Missing(required_fields[i])
C5_BadCalories ==
    \/ result.calories_kcal.k \notin {"num", "bool", "nan"}
    \/ (result.calories_kcal.k \in {"num", "bool"} /\ result.calories_kcal.v < 0)
C5_BadConfidence ==
    \/ result.confidence_score.k \notin {"num", "bool"}
    \/ NumberOf(result.confidence_score, 100) < 0
    \/ NumberOf(result.confidence_score, 100) > 100
C5_BadItems == result.items.k # "list" \/ result.items.v < 1

\* the validation has run: the flags are set and the request is over
Validated == Finished /\ Flagged

C6_Keys ==
    <<"calories_kcal", "protein_g", "carbs_g", "fat_g", "confidence_score",
      "food_items">>

C6_NullKeys ==
    {i \in 1..Len(C6_Keys) :
        /\ reply[C6_Keys[i]].k = "null"
        /\ (C6_Keys[i] \in {"protein_g", "carbs_g", "fat_g"}
                => reply.macros.k = "object")}

\* the reply has been received and its text parses to a JSON object
C6_ParsedObject ==
    /\ reply.status = 200 /\ reply.body = "ok"
    /\ Parses(ResponseText(reply))
    /\ reply.top = "object"

\* C6: a reply that parses to a JSON object in which calories_kcal,
\* macros.protein_g, macros.carbs_g, macros.fat_g, confidence_score or
\* food_items is null ends with the validation error naming a null field
\* (status error, code SCHEMA_VALIDATION_ERROR), never otherwise.
C6_NullIsMissingField ==
    (Finished /\ C6_ParsedObject /\ C6_NullKeys # {}) =>
        /\ response.status = "error"
        /\ response.code = "SCHEMA_VALIDATION_ERROR"
        /\ response.message.text = "Missing required field: "
        /\ \E i \in C6_NullKeys : response.message.arg = required_fields[i]

(***************************************************************************)
(* Properties of calculate_nutrition_targets, checked under SpecTargets.   *)
(***************************************************************************)
BiometricKeys == {"weight_kg", "height_cm", "age", "gender"}

\* a key that is missing from the dict or holds None
IsAbsent(x) == x.k \in {"absent", "null"}

\* C7: a profile in which weight_kg, height_cm, age or gender is absent
\* (missing key or null) gets exactly {2000, 50}, whatever the other fields
\* hold.
C7_DefaultWhenAbsent ==
    (calc.outcome # "none" /\ \E key \in BiometricKeys : IsAbsent(user[key]))
        => /\ calc.outcome = "return"
           /\ calc.daily_calorie_target = 2000
           /\ calc.daily_protein_target = 50

\* the call has returned the default for a profile whose gender alone is
\* null and whose activity_level is null as well
C7_Witness ==
    /\ calc.outcome = "return"
    /\ user.gender.k = "null"
    /\ user.weight_kg = PNum(700) /\ user.height_cm = PNum(1750)
    /\ user.age = PNum(30)
    /\ user.activity_level.k = "null"
    /\ calc.daily_calorie_target = 2000 /\ calc.daily_protein_target = 50

\* C8: calculate_nutrition_targets never raises, for any profile record,
\* activity_level or goal present with a null value included.
C8_NeverRaises == calc.outcome # "raise"

\* the reading of the claims C9 and C10: text compared case-insensitively
C9_Is(x, word) == x.k = "str" /\ x.w = word

C9_Bmr1000(u) ==
    1000 * u.weight_kg.n + 625 * u.height_cm.n - 5000 * u.age.n
        + (IF C9_Is(u.gender, "male") THEN 5000 ELSE -161000)

C9_Multiplier40(u) ==
    CASE C9_Is(u.activity_level, "sedentary") -> 48
      [] C9_Is(u.activity_level, "light") -> 55
      [] C9_Is(u.activity_level, "moderate") -> 62
      [] C9_Is(u.activity_level, "active") -> 69
      [] C9_Is(u.activity_level, "very_active") -> 76
      [] OTHER -> 62

C9_Adjustment(u) ==
    CASE C9_Is(u.goal, "fat_loss") -> -500
      [] C9_Is(u.goal, "muscular") -> 300
      [] OTHER -> 0

C9_Calories(u) ==
    Trunc(C9_Bmr1000(u) * C9_Multiplier40(u) + C9_Adjustment(u) * 40000, 40000)

AllPresent(u) == \A key \in BiometricKeys : ~IsAbsent(u[key])

\* C9: with weight, height, age and gender present, daily_calorie_target is
\* int(BMR * multiplier + adjustment): BMR with +5 for gender "male" in any
\* case and -161 otherwise, multiplier from the table (1.55 when unknown or
\* missing), adjustment -500 for fat_loss, +300 for muscular, 0 otherwise.
C9_CalorieFormula ==
    (calc.outcome # "none" /\ AllPresent(user))
        => /\ calc.outcome = "return"
           /\ calc.daily_calorie_target = C9_Calories(user)

C10_Protein(u) ==
    Trunc(u.weight_kg.n
            * (CASE C9_Is(u.goal, "muscular") -> 20
                 [] C9_Is(u.goal, "fat_loss") -> 18
                 [] OTHER -> 16), 100)

\* C10: with weight, height, age and gender present, daily_protein_target is
\* int(weight * 2.0) for muscular, int(weight * 1.8) for fat_loss and
\* int(weight * 1.6) otherwise, whatever gender, age, height and
\* activity_level are.
C10_ProteinFormula ==
    (calc.outcome # "none" /\ AllPresent(user))
        => /\ calc.outcome = "return"
           /\ calc.daily_protein_target = C10_Protein(user)

\* the profile of the worked example: male, 70 kg, 175 cm, 30 years,
\* moderate, health
C11_Profile ==
    [weight_kg |-> PNum(700), height_cm |-> PNum(1750), age |-> PNum(30),
     gender |-> PStr("male", "lower"),
     activity_level |-> PStr("moderate", "lower"),
     goal |-> PStr("health", "lower")]

\* the BMR of the example in thousandths of a kcal, its TDEE in hundredths
C11_Bmr1000 ==
    Bmr(C11_Profile.weight_kg.n, C11_Profile.height_cm.n, C11_Profile.age.n,
        Lower(C11_Profile.gender))
C11_Tdee100 ==
    (C11_Bmr1000 * ActivityMultiplier(Lower(C11_Profile.activity_level)))
        \div 400

\* C11 as stated: for the example profile BMR = 1674.75, TDEE about 2595.86,
\* daily_calorie_target = 2595 and daily_protein_target = 112.
C11_ExampleAsStated ==
    (calc.outcome # "none" /\ user = C11_Profile) =>
        /\ C11_Bmr1000 = 1674750
        /\ C11_Tdee100 = 259586
        /\ calc = Returned(2595, 112)

\* C11, amended: for the example profile BMR = 1648.75 (700 + 1093.75 - 150
\* + 5), TDEE = 2555.5625 (about 2555.56), daily_calorie_target = 2555 and
\* daily_protein_target = 112.
C11_ExampleTargets ==
    (calc.outcome # "none" /\ user = C11_Profile) =>
        /\ C11_Bmr1000 = 1648750
        /\ C11_Tdee100 = 255556
        /\ calc = Returned(2555, 112)

\* the calculator has returned for the example profile
C11_Witness == calc.outcome = "return" /\ user = C11_Profile

(***************************************************************************)
(* Properties of the normalizer, checked under Spec.                       *)
(***************************************************************************)
MacroKeys ==
    {"protein_g", "carbs_g", "fat_g", "fiber_g", "sugar_g", "sodium_mg"}

\* the normalizer has been given the reply and has produced a candidate
Normalized == result # NoResult

\* the normalizer has been given the reply and is over
NormalizerDone == C6_ParsedObject /\ pc \in {"FLAGGING", "VALIDATING", "SUCCESS", "FAILED"}

\* the value the claim C12 gives a field: the default when the key is
\* missing from the reply, what the reply holds otherwise
C12_Expected(key, default) ==
    IF reply[key].k = "absent" THEN default ELSE reply[key]

C12_ExpectedMacro(key) ==
    IF reply.macros.k = "absent" THEN Num(0) ELSE C12_Expected(key, Num(0))

\* C12: for a reply that parses to a JSON object the normalizer gives each
\* macro 0 when the key is missing from macros or macros is missing,
\* calories_kcal 0 and confidence_score 0.5 when missing, copies food_items
\* to items and explainability to explanation, and a missing key never makes
\* it fail: it fails only on a macros member that is present and is no
\* object.
C12_DefaultsForMissing ==
    NormalizerDone =>
        /\ ~Normalized => reply.macros.k \notin {"absent", "object"}
        /\ Normalized =>
            /\ \A key \in MacroKeys : result[key] = C12_ExpectedMacro(key)
            /\ result.calories_kcal = C12_Expected("calories_kcal", Num(0))
            /\ result.confidence_score = C12_Expected("confidence_score", Num(50))
            /\ result.items = C12_Expected("food_items", List(0))
            /\ result.explanation = C12_Expected("explainability", List(0))
            /\ reply.food_items.k # "absent" => result.items = reply.food_items
            /\ reply.explainability.k # "absent"
                    => result.explanation = reply.explainability

\* a reply without macros, calories_kcal and confidence_score has been
\* normalized to zeros and 0.5 and returned
C12_Witness ==
    /\ pc = "SUCCESS"
    /\ reply.macros = Absent /\ reply.calories_kcal = Absent
    /\ reply.confidence_score = Absent
    /\ \A key \in MacroKeys : result[key] = Num(0)
    /\ result.calories_kcal = Num(0) /\ result.confidence_score = Num(50)
    /\ result.items = List(1)

\* the reply has come with status 200 and a message, and the lines that
\* normalize it have run
NormalizerRan ==
    /\ reply.status = 200 /\ reply.body = "ok"
    /\ pc \in {"FLAGGING", "VALIDATING", "SUCCESS", "FAILED"}

\* C13: normalization is total over well-formed JSON: a reply text that
\* parses to a JSON object gives a candidate whatever the types of its
\* members (macros null, a number or a list included), and normalization
\* fails only when the text is not parseable JSON or its value is no object.
C13_NormalizerTotal ==
    NormalizerRan =>
        (Normalized <=> (Parses(ResponseText(reply)) /\ reply.top = "object"))

\* C13 but for the replies whose macros member is present and no object
C13_TotalButMacros ==
    (NormalizerRan /\ reply.macros.k \in {"absent", "object"}) =>
        (Normalized <=> (Parses(ResponseText(reply)) /\ reply.top = "object"))

\* C17: the reply {calories_kcal: 450, macros: {protein_g: 20, carbs_g: 60,
\* fat_g: 10}, confidence_score: 0.42, food_items: [one item],
\* recommendations: [one], explainability: [one]} yields status success
\* with calories_kcal 450, protein_g 20, carbs_g 60, fat_g 10, fiber_g =
\* sugar_g = sodium_mg = 0, very_low_confidence and needs_confirmation true,
\* needs_portion_confirmation false.
C17_EndToEnd ==
    (Finished /\ reply = NominalReply) =>
        /\ pc = "SUCCESS"
        /\ response.status = "success"
        /\ response.data.calories_kcal = Num(450)
        /\ response.data.protein_g = Num(20)
        /\ response.data.carbs_g = Num(60)
        /\ response.data.fat_g = Num(10)
        /\ response.data.fiber_g = Num(0)
        /\ response.data.sugar_g = Num(0)
        /\ response.data.sodium_mg = Num(0)
        /\ response.data.confidence_score = Num(42)
        /\ response.data.very_low_confidence = Bool(TRUE)
        /\ response.data.needs_confirmation = Bool(TRUE)
        /\ response.data.needs_portion_confirmation = Bool(FALSE)
        /\ response.data.items = List(1)
        /\ response.data.recommendations = List(1)
        /\ response.data.explanation = List(1)

\* the request of the example reply is over
C17_Witness ==
    /\ Finished /\ reply = NominalReply
    /\ response.status = "success"
    /\ response.data.protein_g = Num(20)

NumericFields ==
    {"calories_kcal", "protein_g", "carbs_g", "fat_g", "fiber_g", "sugar_g",
     "sodium_mg"}

\* C18: in every result returned with status success, calories_kcal,
\* protein_g, carbs_g, fat_g, fiber_g, sugar_g and sodium_mg are numbers
\* and are >= 0, also when the reply gives a macro as null, as a negative
\* number or as a non-number.
C18_NumericFieldsNonNegative ==
    response.status = "success" =>
        \A field \in NumericFields : NonNegativeNumber(response.data[field])

\* what the validator does ensure of the numeric fields of a success
C18_WhatIsChecked ==
    response.status = "success" =>
        /\ IsNumber(response.data.calories_kcal)
        /\ ~LessThan(response.data.calories_kcal, 0, 1)
        /\ \A field \in {"protein_g", "carbs_g", "fat_g"} :
                response.data[field].k \notin {"absent", "null"}

\* a list with at least one element
NonEmptyList(x) == x.k = "list" /\ x.v >= 1

\* C19: in every result returned with status success, recommendations and
\* explanation are non-empty lists (and every element of items carries
\* name, probability and portion_estimate_g: the elements of items are
\* copied as the service gives them and are not looked at here).
C19_ListsNonEmpty ==
    response.status = "success" =>
        /\ NonEmptyList(response.data.recommendations)
        /\ NonEmptyList(response.data.explanation)
        /\ NonEmptyList(response.data.items)

\* what the validator does ensure of the lists of a success
C19_WhatIsChecked ==
    response.status = "success" => NonEmptyList(response.data.items)

(***************************************************************************)
(* Properties of the error codes, checked under Spec.                      *)
(***************************************************************************)
\* the reply came with status 200 and a message whose text json.loads rejects
ParseFailure ==
    /\ reply.status = 200 /\ reply.body = "ok"
    /\ ~Parses(ResponseText(reply))

\* C14: whenever the text of the service reply cannot be parsed as JSON the
\* request ends FAILED and the caller receives {status: "error"} with code
\* MALFORMED_RESPONSE.
C14_ParseFailureIsMalformed ==
    (Finished /\ ParseFailure) =>
        /\ pc = "FAILED"
        /\ response.status = "error"
        /\ response.code = "MALFORMED_RESPONSE"

\* what the code answers a parse failure with
C14_ParseFailureIsAnalysisError ==
    (Finished /\ ParseFailure) =>
        /\ pc = "FAILED"
        /\ response.status = "error"
        /\ response.code = "ANALYSIS_ERROR"
        /\ result = NoResult

\* requests.post has raised, or has returned a status outside 200..299
TransportFailure ==
    /\ calls = 1
    /\ pc # "CALLING_SERVICE"
    /\ reply = NoReply \/ reply.status \notin 200..299

\* C15: a non-2xx status or a transport error of the external call sends the
\* request directly to FAILED, without normalizing, flagging or validating,
\* with code EXTERNAL_SERVICE_ERROR; every 2xx response goes on to
\* normalization.
C15_TransportFailureCode ==
    /\ [](TransportFailure =>
            /\ pc = "FAILED"
            /\ result = NoResult
            /\ response.status = "error"
            /\ response.code = "EXTERNAL_SERVICE_ERROR")
    /\ [][(pc = "CALLING_SERVICE" /\ reply'.status \in 200..299)
            => pc' = "NORMALIZING"]_vars

\* what the code does of a transport failure: directly to FAILED, with one of
\* the codes the text of the exception is classified to
C15_TransportFailureFails ==
    TransportFailure =>
        /\ pc = "FAILED"
        /\ result = NoResult
        /\ response.status = "error"
        /\ response.code \in {"ANALYSIS_ERROR", "RATE_LIMIT", "TIMEOUT", "NETWORK"}
        /\ reply # NoReply => response.code = "ANALYSIS_ERROR"

(***************************************************************************)
(* Properties of the second pass, checked under SpecRerun.                 *)
(***************************************************************************)
\* the second pass, over the MealAnalysis held in reply.others, is over
RerunDone == Finished /\ reply.others # NoResult

\* C16: normalization followed by validation, run on an already
\* normalized and already valid MealAnalysis, succeeds and returns a result
\* identical to its input: no field value changes.
C16_Idempotent ==
    RerunDone =>
        /\ pc = "SUCCESS"
        /\ response.status = "success"
        /\ response.data = reply.others

\* what the code does of a second pass: the macros become 0, items and
\* explanation become empty and the validator rejects the result
C16_RerunFails ==
    RerunDone =>
        /\ pc = "FAILED"
        /\ \A key \in MacroKeys : result[key] = Num(0)
        /\ result.items = List(0) /\ result.explanation = List(0)
        /\ result.calories_kcal = reply.others.calories_kcal
        /\ result.confidence_score = reply.others.confidence_score
        /\ response.code = "SCHEMA_VALIDATION_ERROR"
        /\ response.message.text = "No food items detected"

(***************************************************************************)
(* Properties of the stored targets, checked under SpecProfile.            *)
(***************************************************************************)
\* no update_profile request is under way
Quiescent == \A p \in Requests : req[p].pc \in {"idle", "done"}

\* the stored targets are what the calculator gives the stored profile
TargetsDerived ==
    calculate_nutrition_targets(stored)
        = Returned(stored.daily_calorie_target, stored.daily_protein_target)

\* C20: after any sequence of register and update_profile requests of a
\* user, requests that overlap in time included, the stored
\* daily_calorie_target and daily_protein_target are
\* calculate_nutrition_targets of the stored weight_kg, height_cm, age,
\* gender, activity_level and goal once all requests have completed.
C20_TargetsDerived == (stored.registered /\ Quiescent) => TargetsDerived

\* what does hold: a write computed from a document that is still the stored
\* one leaves the targets derived
C20_FreshWriteKeepsDerived ==
    [][((\E p \in Requests :
            /\ req[p].pc = "read" /\ req'[p].pc # "read"
            /\ req[p].current_user = stored)
        /\ TargetsDerived) => TargetsDerived']_vars

(***************************************************************************)
(* Properties of the order of the steps, checked under Spec.               *)
(***************************************************************************)
\* a confidence_score that is no number or is outside [0, 1]
C21_BadConfidence(x) ==
    \/ x.k \notin {"num", "bool"}
    \/ NumberOf(x, 100) < 0
    \/ NumberOf(x, 100) > 100

\* the reply is the well-formed one but for its confidence_score, which is
\* present and bad
C21_OnlyConfidenceBad ==
    /\ reply = [NominalReply EXCEPT !.confidence_score = reply.confidence_score]
    /\ reply.confidence_score.k # "absent"
    /\ C21_BadConfidence(reply.confidence_score)

\* C21: a reply whose confidence_score is non-numeric or outside [0, 1] is
\* always rejected by the validator with the invalid-confidence error
\* (status error, code SCHEMA_VALIDATION_ERROR), and the confidence policy
\* is never run on such a value before that rejection.
C21_RejectedBeforeFlagging ==
    /\ (Finished /\ C21_OnlyConfidenceBad) =>
            /\ response.status = "error"
            /\ response.code = "SCHEMA_VALIDATION_ERROR"
            /\ response.message.text = "Invalid confidence score"
    /\ (Normalized /\ C21_BadConfidence(result.confidence_score)) => Unflagged

\* what the code does: a numeric confidence outside [0, 1] is flagged, then
\* rejected by the validator; a non-numeric one stops the flagging and never
\* reaches the validator
C21_FlaggedThenRejected ==
    (Finished /\ C21_OnlyConfidenceBad) =>
        /\ pc = "FAILED"
        /\ IsNumber(reply.confidence_score) =>
                /\ Flagged
                /\ response.code = "SCHEMA_VALIDATION_ERROR"
                /\ response.message.text = "Invalid confidence score"
        /\ ~IsNumber(reply.confidence_score) =>
                /\ Unflagged
                /\ caught.type = "HTTPException"
                /\ response.code = "ANALYSIS_ERROR"

\* the states of a request that has not failed, in their order
StateOrder ==
    <<"BUILDING_PROMPT", "CALLING_SERVICE", "NORMALIZING", "FLAGGING",
      "VALIDATING", "SUCCESS">>

\* a step from a state to the next one of the order, or to FAILED
C22_StepInOrder ==
    \E i \in 1..(Len(StateOrder) - 1) :
        /\ pc = StateOrder[i]
        /\ pc' = StateOrder[i + 1] \/ pc' = "FAILED"

\* C22: a request moves through BUILDING_PROMPT, CALLING_SERVICE,
\* NORMALIZING, FLAGGING, VALIDATING in that order and ends in exactly one
\* of SUCCESS or FAILED; no state is entered twice, a failure in any state
\* goes straight to FAILED, and at most one call of the external service is
\* issued, none when the API key is not configured.
C22_OrderedStates ==
    /\ [](/\ pc \in {StateOrder[i] : i \in 1..Len(StateOrder)} \cup {"FAILED"}
          /\ calls <= 1
          /\ ~apiKey => calls = 0
          /\ pc \in {"BUILDING_PROMPT", "CALLING_SERVICE"} => calls = 0
          /\ pc \in {"NORMALIZING", "FLAGGING", "VALIDATING", "SUCCESS"}
                => calls = 1
          /\ pc = "SUCCESS" <=> response.status = "success"
          /\ pc = "FAILED" <=> response.status = "error")
    /\ [][pc' # pc => C22_StepInOrder]_vars
    /\ [][calls' # calls => (pc = "CALLING_SERVICE" /\ pc' # pc)]_vars
    /\ [][Finished => UNCHANGED vars]_vars

\* a request has gone through every state to SUCCESS on one call
C22_Witness == pc = "SUCCESS" /\ calls = 1 /\ Flagged /\ apiKey

(***************************************************************************)
(* Properties of the classification of failures, checked under Spec.       *)
(***************************************************************************)
\* the lower-cased text of the caught exception contains the word
C23_Contains(word) == word \in caught.kw

C24_WritesNothing == [][UNCHANGED <<stored, userDocs, meals, older>>]_vars

\* an analysis of a user with a stored profile and a stored meal has
\* succeeded
C24_Witness ==
    /\ stored = CompleteUser /\ meals # {}
    /\ pc = "SUCCESS" /\ response.status = "success"

(***************************************************************************)
(* Properties of the text pre-processing, checked under Spec.              *)
(***************************************************************************)
Range(t) == {t[i] : i \in 1..Len(t)}

\* the text of the reply is one JSON value in a fenced code block: the
\* opening marker, a language tag or none, the value, the closing marker
C25_Fenced ==
    LET t == Strip(ContentText(reply.content))
    IN  /\ reply.status = 200 /\ reply.body = "ok"
        /\ Len(t) >= 3
        /\ Head(t) = "FENCE" /\ t[Len(t)] = "FENCE"
        /\ \E i \in 2..(Len(t) - 1) :
                /\ t[i] = "BODY"
                /\ \A j \in 2..(Len(t) - 1) :
                        j # i => t[j] \in {"ws", "json", "python"}
                /\ \A j \in 3..(Len(t) - 1) : t[j] \in {"ws", "BODY"}

\* the reply is the well-formed one but for the form of its text
C25_NominalButText == reply = [NominalReply EXCEPT !.content = reply.content]

\* C25: when the reply text wraps the JSON in a fenced code block, the
\* opening marker, with any language tag or with none, and the closing
\* marker are removed before parsing, so the result of the request is that
\* of the unfenced JSON.
C25_FenceRemoved ==
    (Finished /\ C25_Fenced) =>
        /\ ResponseText(reply) = <<"BODY">>
        /\ C25_NominalButText =>
                /\ pc = "SUCCESS"
                /\ response = Success(AddFlags(Transform(NominalReply)))

\* what the code does: the fence is removed when its tag is json or when it
\* has none
C25_JsonFenceRemoved ==
    (Finished /\ C25_Fenced /\ "python" \notin Range(Strip(ContentText(reply.content))))
        => /\ ResponseText(reply) = <<"BODY">>
           /\ C25_NominalButText =>
                /\ pc = "SUCCESS"
                /\ response = Success(AddFlags(Transform(NominalReply)))

(***************************************************************************)
(* Properties of the prompt, checked under SpecPrompt.                     *)
(***************************************************************************)
PromptBuilt == apiKey /\ pc # "BUILDING_PROMPT"

\* text is the elements of items in their order, with ", " between them
C26_JoinedInOrder(text, items) ==
    /\ Len(text) = 2 * Len(items) - 1
    /\ \A i \in 1..Len(items) : text[2 * i - 1] = items[i]
    /\ \A i \in 1..(Len(items) - 1) : text[2 * i] = ", "

C26_Rendered(x, text) ==
    IF x.k = "list" /\ x.items # <<>>
    THEN C26_JoinedInOrder(text, x.items)
    ELSE text = <<"None">>

\* C26: once the prompt is built, an allergies or medical value that is
\* absent, null, empty or not a list is rendered as "None" and a non-empty
\* list as its elements joined by ", " in order; the prompt is built for
\* every such value, and a request fails only after the call was issued.
C26_ListsRendered ==
    /\ PromptBuilt =>
            /\ C26_Rendered(context.allergies, prompt.allergies_str)
            /\ C26_Rendered(context.medical, prompt.medical_str)
    /\ (apiKey /\ pc = "FAILED") => (calls = 1 /\ reply = NoReply)

C26_Witness ==
    /\ pc = "SUCCESS"
    /\ context.allergies = CList(<<"peanuts", "gluten">>)
    /\ prompt.allergies_str = <<"peanuts", ", ", "gluten">>
    /\ context.medical = CStr(<<"n", "o">>)
    /\ prompt.medical_str = <<"None">>

(***************************************************************************)
(* Properties of the meal history, checked under SpecMeals.                *)
(***************************************************************************)
\* the save_meal request q returns in this step
Completes(q) ==
    saves[q].pc \in {"inserted", "trimming"} /\ saves'[q].pc = "done"

\* C27: when a save_meal request returns, the saving user holds at most 30
\* meals, every meal of that user the request has removed is older than
\* every meal kept, and the meals of the other users are as they were,
\* whatever save_meal and delete_meal requests ran before or overlap.
C27_KeepsLast30 ==
    [][\A q \in SaveRequests : Completes(q) =>
         \A u \in Users :
            IF u = saves[q].user_id
            THEN /\ Cardinality(DocKeys(u)') <= MaxMeals
                 /\ \A r \in DocKeys(u) \ DocKeys(u)' :
                        \A k \in DocKeys(u)' : r < k
            ELSE DocKeys(u)' = DocKeys(u)]_vars

(***************************************************************************)
(* Properties of the registration, checked under SpecRegister.             *)
(***************************************************************************)
\* a register request asked for an email that has a document is answered
\* 400 and writes nothing
C28_Rejects ==
    [][\A r \in Registrations :
         (reg[r].pc = "idle" /\ reg'[r].pc # "idle" /\ userDocs[reg'[r].email] > 0)
            => (reg'[r].status = 400 /\ reg'[r].pc = "rejected" /\ userDocs' = userDocs)]_vars

\* C28: register answers 400 for an email that is registered and leaves
\* db.users as it is, and after any register requests, overlapping ones for
\* one email too, no email has more than one document.
C28_OneRecordPerEmail ==
    /\ [](\A e \in Emails : userDocs[e] <= 1)
    /\ C28_Rejects

(***************************************************************************)
(* Properties of a reply with absent keys, checked under Spec.             *)
(***************************************************************************)
\* the reply parses to a JSON object that holds a non-empty food_items list
\* and no other key the normalizer reads
C29_OnlyItems ==
    /\ C6_ParsedObject
    /\ reply.food_items.k = "list" /\ reply.food_items.v >= 1
    /\ \A key \in {"calories_kcal", "macros", "confidence_score",
                    "recommendations", "explainability"} :
            reply[key] = Absent

C30_Terminates ==
    /\ <>Finished
    /\ (pc = "CALLING_SERVICE") ~> Finished
    /\ [](Finished => response # NoResponse)

\* the call has timed out and the request has ended with its answer
C30_Witness ==
    /\ pc = "FAILED"
    /\ calls = 1
    /\ reply = NoReply
    /\ "timeout" \in caught.kw
    /\ response.status = "error"

====
